---- MODULE Spec2Model ----
(***************************************************************************)
(* Model of the QCVV notebooks "Session 1: Qubit-level benchmarks &        *)
(* measurement error mitigation" and "Exercise #2 - Calibrating a Qubit    *)
(* Measurement" (src/QCVV/Session 1.ipynb).  Each notebook section is a    *)
(* sequence of cells; a cell, or one iteration of a loop it runs, is one   *)
(* action.  Values the notebook gets from a backend (device properties,    *)
(* measured shots) are inputs drawn from bounded sets.                     *)
(*                                                                         *)
(* Numbers.  Delay times are kept in tenths of a micro-second (gate_time   *)
(* = 0.1 micro-seconds is 1 unit).  Device probabilities are kept in       *)
(* millionths before np.round(., 5) and in hundred-thousandths after it.   *)
(* Quotients are kept as exact fractions <<numerator, denominator>>.       *)
(***************************************************************************)
EXTENDS Integers, Sequences, FiniteSets, TLC

VARIABLES
    pc,             \* the cell (or statement of a loop) the notebook is at
    num_of_gates,   \* number of identity gates per circuit
    gate_time,      \* identity gate time, in tenths of a micro-second
    qubits,         \* qubits measured
    xdata,          \* t1_circuits: local delay array
    circuits,       \* t1_circuits: local list of finished circuits
    circ,           \* t1_circuits: circuit under construction
    circ_index,     \* t1_circuits: loop index (1-based)
    t1_circs,       \* returned T1 circuits
    t1_xdata,       \* returned T1 delay times
    j,              \* readout error loop: qubit index
    a,              \* readout error loop: Pr(read 0 | qubit in 1), rounded
    b,              \* readout error loop: Pr(read 1 | qubit in 0), rounded
    error,          \* readout error loop: (a+b)/2
    out,            \* readout error loop: what the iteration printed
    amps,           \* pulse sweep: measurement amplitudes
    exps,           \* prep_exps: local list of schedules
    readout_cal_result, \* pulse sweep: per program, the schedule that was run
    centroid_distances, \* pulse sweep: ground/excited separation per amplitude
    optimal_idx,    \* pulse sweep: index of the chosen amplitude (0-based)
    optimal_amp,    \* pulse sweep: the chosen amplitude
    ground,         \* pulse sweep: data fetched for the ground experiment
    excited,        \* pulse sweep: data fetched for the excited experiment
    meas_calibs,    \* measurement calibration circuits
    state_labels,   \* labels of the calibration states
    noise_model,    \* noise model of the job being run ("none" or "readout")
    job_circ,       \* running job: index of the circuit being run (1-based)
    job_shot,       \* running job: shots of that circuit taken so far
    job_cur,        \* running job: counts of that circuit so far
    job_counts,     \* running job: counts of the circuits finished
    job_misreads,   \* running job: shots misread so far
    cal_results,    \* result of the calibration job
    meas_fitter,    \* the CompleteMeasFitter in use
    fidelity,       \* meas_fitter.readout_fidelity()
    results,        \* result of the Bell-state job
    meas_fitter_sub, \* fitter reduced to a subset of the qubits
    meas_filter_sub, \* its filter
    mitigation      \* what meas_filter_sub.apply(results) corrects, and with what

t1vars == <<num_of_gates, gate_time, qubits, xdata, circuits, circ, circ_index,
            t1_circs, t1_xdata>>

rovars == <<j, a, b, error, out>>

pulsevars == <<amps, exps, readout_cal_result, centroid_distances, optimal_idx,
               optimal_amp, ground, excited>>

jobvars == <<noise_model, job_circ, job_shot, job_cur, job_counts, job_misreads>>

calvars == <<meas_calibs, state_labels, jobvars, cal_results, meas_fitter, fidelity,
             results, meas_fitter_sub, meas_filter_sub, mitigation>>

vars == <<pc, t1vars, rovars, pulsevars, calvars>>

\* Tenths of a micro-second in one micro-second.
TimeUnitsPerMicro == 10

\* Largest device probability drawn, in millionths.
MaxRawProb == 16

\* Largest centroid separation drawn, in units of the smallest one resolved.
MaxDistance == 1

\* Qubits of the pulse backend (and of the calibrated chip).
NumPulseQubits == 2

\* Shots per calibration circuit.
CalShots == 2

\* Most shots of one calibration job that the readout noise makes misread.
MaxMisreads == 1

\* Shots of the Bell-state job.
BellShots == 1

(***************************************************************************)
(* Exact fractions                                                         *)
(***************************************************************************)

Frac(n, d) == <<n, d>>

FracEq(x, y) == x[1] * y[2] = y[1] * x[2]

\* x <= y, for positive denominators.
FracLeq(x, y) == x[1] * y[2] <= y[1] * x[2]

RECURSIVE GCD(_, _)
GCD(x, y) == IF y = 0 THEN x ELSE GCD(y, x % y)

\* n/d in lowest terms, for n >= 0 and d > 0.
FracReduce(n, d) == IF n = 0 THEN <<0, 1>> ELSE <<n \div GCD(n, d), d \div GCD(n, d)>>

FracAdd(x, y) == FracReduce(x[1] * y[2] + y[1] * x[2], x[2] * y[2])

\* x / k for an integer k > 0.
FracDivInt(x, k) == FracReduce(x[1], x[2] * k)

\* The sum of f[i] over the sequence of indices idx.
RECURSIVE FracSum(_, _)
FracSum(f, idx) ==
    IF idx = << >> THEN <<0, 1>> ELSE FracAdd(f[Head(idx)], FracSum(f, Tail(idx)))

(***************************************************************************)
(* numpy helpers                                                           *)
(***************************************************************************)

\* Variant: the sweep starts at 0 instead of start.
linspace_int_from0(start, stop, num) ==
    [i \in 1..num |-> ((i - 1) * stop) \div (num - 1)]

\* Variant: endpoint=False, the step is (stop-start)/num and stop is left out.
linspace_int_noendpoint(start, stop, num) ==
    [i \in 1..num |-> (start * num + (i - 1) * (stop - start)) \div num]

\* np.linspace(start, stop, num).astype(int) for 0 <= start <= stop: entry i
\* (1-based) is start + (i-1)*(stop-start)/(num-1), truncated toward zero.
linspace_int(start, stop, num) ==
    [i \in 1..num |-> (start * (num - 1) + (i - 1) * (stop - start)) \div (num - 1)]

\* np.round(p, 5) of a probability of p millionths, in hundred-thousandths:
\* to the nearest, a tie to the even neighbour.
np_round5(p) ==
    LET q == p \div 10
        r == p % 10
    IN  IF r < 5 THEN q
        ELSE IF r > 5 THEN q + 1
        ELSE IF q % 2 = 0 THEN q ELSE q + 1

(***************************************************************************)
(* T1 experiment design                                                    *)
(***************************************************************************)

\* The cell that sets num_of_gates, gate_time and qubits for T1.
T1Setup ==
    /\ pc = "t1_setup"
    /\ num_of_gates' = linspace_int(10, 300, 50)
    /\ gate_time' = 1
    /\ qubits' = <<0>>
    /\ pc' = "t1_call"
    /\ UNCHANGED <<xdata, circuits, circ, circ_index, t1_circs, t1_xdata>>
    /\ UNCHANGED rovars
    /\ UNCHANGED pulsevars
    /\ UNCHANGED calvars

\* t1_circuits: xdata = gate_time * num_of_gates.
t1_circuits_xdata(gt, nog) == [i \in 1..Len(nog) |-> gt * nog[i]]

T1CircuitsEnter ==
    /\ pc = "t1_call"
    /\ xdata' = t1_circuits_xdata(gate_time, num_of_gates)
    /\ circuits' = << >>
    /\ circ_index' = 1
    /\ pc' = "t1_loop"
    /\ UNCHANGED <<num_of_gates, gate_time, qubits, circ, t1_circs, t1_xdata>>
    /\ UNCHANGED rovars
    /\ UNCHANGED pulsevars
    /\ UNCHANGED calvars

\* pad_id_gates: num times a barrier and an identity gate on the qubit.
pad_id_gates(c, qubit, num) ==
    c \o [k \in 1..(2 * num) |->
             IF k % 2 = 1 THEN <<"barrier", qubit>> ELSE <<"id", qubit>>]

\* The loop over qubits of one circuit: X on the qubit, then the padding.
RECURSIVE t1_excite_and_pad(_, _, _, _)
t1_excite_and_pad(c, qs, k, circ_length) ==
    IF k > Len(qs) THEN c
    ELSE t1_excite_and_pad(pad_id_gates(Append(c, <<"x", qs[k]>>), qs[k], circ_length),
                           qs, k + 1, circ_length)

\* The measurements closing one circuit, qubit qs[k] into classical bit k-1.
t1_measurements(qs) == [k \in 1..Len(qs) |-> <<"measure", qs[k], k - 1>>]

\* A new, empty circuit for the next entry of num_of_gates.
T1CircuitNew ==
    /\ pc = "t1_loop"
    /\ circ_index <= Len(num_of_gates)
    /\ circ' = << >>
    /\ pc' = "t1_excite"
    /\ UNCHANGED <<num_of_gates, gate_time, qubits, xdata, circuits, circ_index,
                   t1_circs, t1_xdata>>
    /\ UNCHANGED rovars
    /\ UNCHANGED pulsevars
    /\ UNCHANGED calvars

\* X and num_of_gates[circ_index] padded identity gates on each qubit.
T1CircuitExciteAndPad ==
    /\ pc = "t1_excite"
    /\ circ' = t1_excite_and_pad(circ, qubits, 1, num_of_gates[circ_index])
    /\ pc' = "t1_barrier"
    /\ UNCHANGED <<num_of_gates, gate_time, qubits, xdata, circuits, circ_index,
                   t1_circs, t1_xdata>>
    /\ UNCHANGED rovars
    /\ UNCHANGED pulsevars
    /\ UNCHANGED calvars

\* The barrier over the whole register.
T1CircuitBarrier ==
    /\ pc = "t1_barrier"
    /\ circ' = Append(circ, <<"barrier", -1>>)
    /\ pc' = "t1_measure"
    /\ UNCHANGED <<num_of_gates, gate_time, qubits, xdata, circuits, circ_index,
                   t1_circs, t1_xdata>>
    /\ UNCHANGED rovars
    /\ UNCHANGED pulsevars
    /\ UNCHANGED calvars

\* The measurements.
T1CircuitMeasure ==
    /\ pc = "t1_measure"
    /\ circ' = circ \o t1_measurements(qubits)
    /\ pc' = "t1_append"
    /\ UNCHANGED <<num_of_gates, gate_time, qubits, xdata, circuits, circ_index,
                   t1_circs, t1_xdata>>
    /\ UNCHANGED rovars
    /\ UNCHANGED pulsevars
    /\ UNCHANGED calvars

\* circuits.append(circ), and on to the next entry.
T1CircuitAppend ==
    /\ pc = "t1_append"
    /\ circuits' = Append(circuits, circ)
    /\ circ_index' = circ_index + 1
    /\ pc' = "t1_loop"
    /\ UNCHANGED <<num_of_gates, gate_time, qubits, xdata, circ, t1_circs, t1_xdata>>
    /\ UNCHANGED rovars
    /\ UNCHANGED pulsevars
    /\ UNCHANGED calvars

\* t1_circs, t1_xdata = t1_circuits(num_of_gates, gate_time, qubits)
T1CircuitsReturn ==
    /\ pc = "t1_loop"
    /\ circ_index > Len(num_of_gates)
    /\ t1_circs' = circuits
    /\ t1_xdata' = xdata
    /\ pc' = "t1_done"
    /\ UNCHANGED <<num_of_gates, gate_time, qubits, xdata, circuits, circ, circ_index>>
    /\ UNCHANGED rovars
    /\ UNCHANGED pulsevars
    /\ UNCHANGED calvars

\* The cell that sets num_of_gates, gate_time and qubits again, for T2.
T2Setup ==
    /\ pc = "t1_done"
    /\ num_of_gates' = linspace_int(5, 150, 25)
    /\ gate_time' = 1
    /\ qubits' = <<0>>
    /\ pc' = "t2_call"
    /\ UNCHANGED <<xdata, circuits, circ, circ_index, t1_circs, t1_xdata>>
    /\ UNCHANGED rovars
    /\ UNCHANGED pulsevars
    /\ UNCHANGED calvars

T1Idle ==
    /\ num_of_gates = << >>
    /\ gate_time = 0
    /\ qubits = << >>
    /\ xdata = << >>
    /\ circuits = << >>
    /\ circ = << >>
    /\ circ_index = 0
    /\ t1_circs = << >>
    /\ t1_xdata = << >>

ReadoutIdle ==
    /\ j = -1
    /\ a = 0
    /\ b = 0
    /\ error = <<0, 1>>
    /\ out = [qubit |-> -1]

PulseIdle ==
    /\ amps = << >>
    /\ exps = << >>
    /\ readout_cal_result = << >>
    /\ centroid_distances = << >>
    /\ optimal_idx = -1
    /\ optimal_amp = <<0, 1>>
    /\ ground = [found |-> FALSE, prog_idx |-> -1, qubit |-> -1, sched |-> << >>]
    /\ excited = [found |-> FALSE, prog_idx |-> -1, qubit |-> -1, sched |-> << >>]

NoFitter == [state_labels |-> << >>, qubit_list |-> << >>, cal_matrix |-> << >>]

CalIdle ==
    /\ meas_calibs = << >>
    /\ state_labels = << >>
    /\ noise_model = "none"
    /\ job_circ = 0
    /\ job_shot = 0
    /\ job_cur = << >>
    /\ job_counts = << >>
    /\ job_misreads = 0
    /\ cal_results = << >>
    /\ meas_fitter = NoFitter
    /\ fidelity = <<0, 1>>
    /\ results = << >>
    /\ meas_fitter_sub = NoFitter
    /\ meas_filter_sub = [state_labels |-> << >>, cal_matrix |-> << >>]
    /\ mitigation = [state_labels |-> << >>, cal_matrix |-> << >>, raw_data |-> << >>,
                     method |-> "none"]

InitT1 ==
    /\ pc = "t1_setup"
    /\ T1Idle
    /\ ReadoutIdle
    /\ PulseIdle
    /\ CalIdle

NextT1 ==
    \/ T1Setup
    \/ T1CircuitsEnter
    \/ T1CircuitNew
    \/ T1CircuitExciteAndPad
    \/ T1CircuitBarrier
    \/ T1CircuitMeasure
    \/ T1CircuitAppend
    \/ T1CircuitsReturn
    \/ T2Setup

SpecT1 == InitT1 /\ [][NextT1]_vars

(***************************************************************************)
(* Readout error of the five qubits of the device                          *)
(***************************************************************************)

\* Variant: a + b/2.
readout_error_noparen(x, y) == Frac(2 * x + y, 2)

\* error = (a+b)/2
readout_error(x, y) == Frac(x + y, 2)

\* One iteration of "for j in range(5)": the device reports the two
\* misassignment probabilities of qubit j, the cell rounds, averages, prints.
ReadoutErrorIter ==
    /\ pc = "ro_loop"
    /\ j + 1 < 5
    /\ \E p01 \in 0..MaxRawProb, p10 \in 0..MaxRawProb :
          /\ a' = np_round5(p01)
          /\ b' = np_round5(p10)
          /\ error' = readout_error(np_round5(p01), np_round5(p10))
          /\ out' = [qubit |-> j + 1,
                     read0_given1 |-> np_round5(p01),
                     read1_given0 |-> np_round5(p10),
                     readout_error |-> readout_error(np_round5(p01), np_round5(p10)),
                     raw01 |-> p01,
                     raw10 |-> p10]
    /\ j' = j + 1
    /\ UNCHANGED pc
    /\ UNCHANGED t1vars
    /\ UNCHANGED pulsevars
    /\ UNCHANGED calvars

\* The loop is exhausted.
ReadoutErrorDone ==
    /\ pc = "ro_loop"
    /\ j + 1 >= 5
    /\ pc' = "ro_done"
    /\ UNCHANGED t1vars
    /\ UNCHANGED rovars
    /\ UNCHANGED pulsevars
    /\ UNCHANGED calvars

InitReadoutError ==
    /\ pc = "ro_loop"
    /\ T1Idle
    /\ ReadoutIdle
    /\ PulseIdle
    /\ CalIdle

NextReadoutError ==
    \/ ReadoutErrorIter
    \/ ReadoutErrorDone

SpecReadoutError == InitReadoutError /\ [][NextReadoutError]_vars

(***************************************************************************)
(* Pulse-level readout calibration: the amplitude sweep                    *)
(***************************************************************************)

n_exps == 10

max_amp == Frac(15, 100)

\* np.linspace(0, stop, num) of a fraction stop: entry i (1-based) is
\* (i-1)*stop/(num-1).
linspace_from0(stop, num) ==
    [i \in 1..num |-> Frac((i - 1) * stop[1], stop[2] * (num - 1))]

\* The measurement pulse on the measure channel of every chip qubit.
meas_plays(amp) == [q \in 1..NumPulseQubits |-> <<"play_meas", q - 1, amp>>]

\* The acquisition on every qubit of the backend.
acquires == [q \in 1..NumPulseQubits |-> <<"acquire", q - 1>>]

\* prepare_meas_cal_exp(amp, prep_excited): the x180 pulse on qubit 0 when
\* prep_excited, a barrier, the measurement pulses, the acquisitions.
prepare_meas_cal_exp(amp, prep_excited) ==
    (IF prep_excited THEN << <<"play_x180", 0>> >> ELSE << >>)
        \o << <<"barrier">> >> \o meas_plays(amp) \o acquires

\* The cell that sets max_amp and amps.
PulseAmps ==
    /\ pc = "pulse_amps"
    /\ amps' = linspace_from0(max_amp, n_exps)
    /\ exps' = << >>
    /\ pc' = "prep_exps"
    /\ UNCHANGED <<readout_cal_result, centroid_distances, optimal_idx, optimal_amp,
                   ground, excited>>
    /\ UNCHANGED t1vars
    /\ UNCHANGED rovars
    /\ UNCHANGED calvars

\* prep_exps(amps), one schedule at a time: the ground reference experiments
\* in the order of amps, then the excited state experiments in that order.
PrepExpsStep ==
    /\ pc = "prep_exps"
    /\ Len(exps) < 2 * Len(amps)
    /\ exps' = Append(exps,
                      IF Len(exps) < Len(amps)
                      THEN prepare_meas_cal_exp(amps[Len(exps) + 1], FALSE)
                      ELSE prepare_meas_cal_exp(amps[Len(exps) - Len(amps) + 1], TRUE))
    /\ UNCHANGED <<pc, amps, readout_cal_result, centroid_distances, optimal_idx,
                   optimal_amp, ground, excited>>
    /\ UNCHANGED t1vars
    /\ UNCHANGED rovars
    /\ UNCHANGED calvars

\* readout_cal_job = execute(prep_exps(amps), ...) and its result: one
\* experiment per program, in the order of the programs.
ReadoutCalExecute ==
    /\ pc = "prep_exps"
    /\ Len(exps) = 2 * Len(amps)
    /\ readout_cal_result' = exps
    /\ pc' = "analyze"
    /\ UNCHANGED <<amps, exps, centroid_distances, optimal_idx, optimal_amp,
                   ground, excited>>
    /\ UNCHANGED t1vars
    /\ UNCHANGED rovars
    /\ UNCHANGED calvars

\* Variant: a later equal entry replaces the best one.
RECURSIVE np_argmax_last(_, _, _)
np_argmax_last(d, i, best) ==
    IF i > Len(d) THEN best - 1
    ELSE IF d[i] >= d[best] THEN np_argmax_last(d, i + 1, i)
    ELSE np_argmax_last(d, i + 1, best)

\* np.argmax of a non-empty array: a scan that keeps the first entry no later
\* entry exceeds; the index returned is 0-based.
RECURSIVE np_argmax(_, _, _)
np_argmax(d, i, best) ==
    IF i > Len(d) THEN best - 1
    ELSE IF d[i] > d[best] THEN np_argmax(d, i + 1, i)
    ELSE np_argmax(d, i + 1, best)

\* The cell that computes the distances and picks the amplitude.
PulseAnalyze ==
    /\ pc = "analyze"
    /\ \E d \in [1..n_exps -> 0..MaxDistance] :
          /\ centroid_distances' = d
          /\ optimal_idx' = np_argmax(d, 1, 1)
          /\ optimal_amp' = amps[np_argmax(d, 1, 1) + 1]
    /\ pc' = "fetch"
    /\ UNCHANGED <<amps, exps, readout_cal_result, ground, excited>>
    /\ UNCHANGED t1vars
    /\ UNCHANGED rovars
    /\ UNCHANGED calvars

\* get_qubit_data(result, prog_idx, qubit): the shots of program prog_idx of
\* the job; there are none (found is FALSE) past the last program.
get_qubit_data(result, prog_idx, qubit) ==
    IF prog_idx + 1 \in 1..Len(result)
    THEN [found |-> TRUE, prog_idx |-> prog_idx, qubit |-> qubit,
          sched |-> result[prog_idx + 1]]
    ELSE [found |-> FALSE, prog_idx |-> prog_idx, qubit |-> qubit, sched |-> << >>]

\* Variant: one program too far.
excited_prog_idx_off_by_one(n, idx) == n + idx + 1

\* The program index the last cell reads the excited data from.
excited_prog_idx(n, idx) == n + idx

\* The cell that fetches the ground and excited data of the chosen amplitude.
PulseFetch ==
    /\ pc = "fetch"
    /\ ground' = get_qubit_data(readout_cal_result, optimal_idx, 0)
    /\ excited' = get_qubit_data(readout_cal_result,
                                 excited_prog_idx(n_exps, optimal_idx), 0)
    /\ pc' = "pulse_done"
    /\ UNCHANGED <<amps, exps, readout_cal_result, centroid_distances, optimal_idx,
                   optimal_amp>>
    /\ UNCHANGED t1vars
    /\ UNCHANGED rovars
    /\ UNCHANGED calvars

InitPulse ==
    /\ pc = "pulse_amps"
    /\ T1Idle
    /\ ReadoutIdle
    /\ PulseIdle
    /\ CalIdle

NextPulse ==
    \/ PulseAmps
    \/ PrepExpsStep
    \/ ReadoutCalExecute
    \/ PulseAnalyze
    \/ PulseFetch

SpecPulse == InitPulse /\ [][NextPulse]_vars

(***************************************************************************)
(* Measurement error mitigation: calibration circuits, fitter, subset      *)
(***************************************************************************)

\* Variant: the calibration is generated for two qubits only.
qubit_list_two == <<0, 1>>

\* qubit_list = [0,1,2]
qubit_list == <<0, 1, 2>>

\* bin(k)[2:].zfill(n): the n binary digits of k, the most significant first.
bin_label(k, n) == [p \in 1..n |-> IF (k \div (2 ^ (n - p))) % 2 = 1 THEN "1" ELSE "0"]

\* count_keys(n): the labels of the 2^n basis states, in counting order.
count_keys(n) == [k \in 1..(2 ^ n) |-> bin_label(k - 1, n)]

\* The X gates of the calibration circuit of basis_state: qubit ql[qind] is
\* flipped when the character nqubits-qind-1 (0-based) of the label is 1.
RECURSIVE cal_x_gates(_, _, _)
cal_x_gates(basis_state, ql, qind) ==
    IF qind >= Len(ql) THEN << >>
    ELSE (IF basis_state[Len(ql) - qind] = "1" THEN << <<"x", ql[qind + 1]>> >> ELSE << >>)
             \o cal_x_gates(basis_state, ql, qind + 1)

\* The measurements of a calibration circuit: qubit ql[qind] into bit qind.
cal_measurements(ql) == [k \in 1..Len(ql) |-> <<"measure", ql[k], k - 1>>]

\* One calibration circuit, named <circlabel>cal_<basis_state>.
cal_circuit(basis_state, ql, circlabel) ==
    [name |-> [circlabel |-> circlabel, state |-> basis_state],
     gates |-> cal_x_gates(basis_state, ql, 0) \o << <<"barrier", -1>> >>
                   \o cal_measurements(ql)]

\* The first statement of complete_meas_cal: the state labels.
MeasCalLabels ==
    /\ pc = "mc_generate"
    /\ state_labels' = count_keys(Len(qubit_list))
    /\ meas_calibs' = << >>
    /\ pc' = "mc_circuits"
    /\ UNCHANGED <<jobvars, cal_results, meas_fitter, fidelity, results,
                   meas_fitter_sub, meas_filter_sub, mitigation>>
    /\ UNCHANGED t1vars
    /\ UNCHANGED rovars
    /\ UNCHANGED pulsevars

\* The loop of complete_meas_cal: the circuit of the next label.
MeasCalCircuit ==
    /\ pc = "mc_circuits"
    /\ Len(meas_calibs) < Len(state_labels)
    /\ meas_calibs' = Append(meas_calibs,
                             cal_circuit(state_labels[Len(meas_calibs) + 1],
                                         qubit_list, "my_calibration"))
    /\ UNCHANGED <<pc, state_labels, jobvars, cal_results, meas_fitter, fidelity, results,
                   meas_fitter_sub, meas_filter_sub, mitigation>>
    /\ UNCHANGED t1vars
    /\ UNCHANGED rovars
    /\ UNCHANGED pulsevars

\* Basis state a circuit prepares from |0...0>: the set of qubits it flips an
\* odd number of times.
PreparedOnes(gates) ==
    {q \in {gates[k][2] : k \in 1..Len(gates)} :
        Cardinality({k \in 1..Len(gates) : gates[k][1] = "x" /\ gates[k][2] = q}) % 2 = 1}

\* Number of classical bits a circuit measures into.
NumClbits(gates) == Cardinality({k \in 1..Len(gates) : gates[k][1] = "measure"})

\* The qubit measured into classical bit c.
MeasuredQubit(gates, c) ==
    gates[CHOOSE k \in 1..Len(gates) : gates[k][1] = "measure" /\ gates[k][3] = c][2]

\* Key under which an error-free shot of a circuit that prepares the qubits
\* in ones is counted: classical bit c is character n-c of the key (1-based).
ideal_key(gates, ones) ==
    [p \in 1..NumClbits(gates) |->
        IF MeasuredQubit(gates, NumClbits(gates) - p) \in ones THEN "1" ELSE "0"]

\* All keys of n classical bits.
AllKeys(n) == {bin_label(k, n) : k \in 0..(2 ^ n - 1)}

ZeroCounts(n) == [key \in AllKeys(n) |-> 0]

\* Variant: the first calibration job runs with the readout noise model.
first_job_noise_model_readout == "readout"

\* qiskit.execute(meas_calibs, backend=backend, shots=1000): no noise model.
first_job_noise_model == "none"

\* The job without noise starts, once every circuit is generated.
CalExecuteStart ==
    /\ pc = "mc_circuits"
    /\ Len(meas_calibs) = Len(state_labels)
    /\ noise_model' = first_job_noise_model
    /\ job_circ' = 1
    /\ job_shot' = 0
    /\ job_cur' = ZeroCounts(Len(qubit_list))
    /\ job_counts' = << >>
    /\ job_misreads' = 0
    /\ pc' = "mc_exec_first"
    /\ UNCHANGED <<meas_calibs, state_labels, cal_results, meas_fitter, fidelity, results,
                   meas_fitter_sub, meas_filter_sub, mitigation>>
    /\ UNCHANGED t1vars
    /\ UNCHANGED rovars
    /\ UNCHANGED pulsevars

\* One shot of the circuit being run.  Without noise the shot reads the
\* prepared state; a readout error may flip any of the bits read.
CalShot ==
    /\ pc \in {"mc_exec_first", "mc_exec_second"}
    /\ job_circ <= Len(meas_calibs)
    /\ job_shot < CalShots
    /\ LET gates == meas_calibs[job_circ].gates
           ideal == ideal_key(gates, PreparedOnes(gates))
       IN  \E key \in AllKeys(NumClbits(gates)) :
              /\ \/ key = ideal
                 \/ noise_model = "readout" /\ job_misreads < MaxMisreads
              /\ job_cur' = [job_cur EXCEPT ![key] = @ + 1]
              /\ job_misreads' = IF key = ideal THEN job_misreads ELSE job_misreads + 1
    /\ job_shot' = job_shot + 1
    /\ UNCHANGED <<pc, noise_model, job_circ, job_counts>>
    /\ UNCHANGED <<meas_calibs, state_labels, cal_results, meas_fitter, fidelity, results,
                   meas_fitter_sub, meas_filter_sub, mitigation>>
    /\ UNCHANGED t1vars
    /\ UNCHANGED rovars
    /\ UNCHANGED pulsevars

\* The circuit being run has taken all its shots.
CalCircuitDone ==
    /\ pc \in {"mc_exec_first", "mc_exec_second"}
    /\ job_circ <= Len(meas_calibs)
    /\ job_shot = CalShots
    /\ job_counts' = Append(job_counts,
                            [name |-> meas_calibs[job_circ].name, counts |-> job_cur])
    /\ job_cur' = ZeroCounts(Len(qubit_list))
    /\ job_shot' = 0
    /\ job_circ' = job_circ + 1
    /\ UNCHANGED <<pc, noise_model, job_misreads>>
    /\ UNCHANGED <<meas_calibs, state_labels, cal_results, meas_fitter, fidelity, results,
                   meas_fitter_sub, meas_filter_sub, mitigation>>
    /\ UNCHANGED t1vars
    /\ UNCHANGED rovars
    /\ UNCHANGED pulsevars

\* cal_results = job.result()
CalJobResult ==
    /\ pc \in {"mc_exec_first", "mc_exec_second"}
    /\ job_circ > Len(meas_calibs)
    /\ cal_results' = job_counts
    /\ job_circ' = 0
    /\ job_counts' = << >>
    /\ job_cur' = << >>
    /\ pc' = IF pc = "mc_exec_first" THEN "mc_fit_first" ELSE "mc_fit_second"
    /\ UNCHANGED <<noise_model, job_shot, job_misreads>>
    /\ UNCHANGED <<meas_calibs, state_labels, meas_fitter, fidelity, results,
                   meas_fitter_sub, meas_filter_sub, mitigation>>
    /\ UNCHANGED t1vars
    /\ UNCHANGED rovars
    /\ UNCHANGED pulsevars

\* Index (1-based) of a label in a list of labels.
label_index(labels, label) == CHOOSE i \in 1..Len(labels) : labels[i] = label

\* The counts the fitter accumulates: entry [measured][prepared] sums, over
\* the experiments named after the prepared label, the counts of the
\* measured label.
cal_counts_matrix(res, labels) ==
    [i \in 1..Len(labels) |->
        [k \in 1..Len(labels) |->
            FracSum([e \in 1..Len(res) |->
                        IF label_index(labels, res[e].name.state) = k
                        THEN <<res[e].counts[labels[i]], 1>> ELSE <<0, 1>>],
                    [e \in 1..Len(res) |-> e])[1]]]

\* The sum of column k of a matrix of integers.
RECURSIVE column_sum(_, _, _)
column_sum(mat, k, i) ==
    IF i > Len(mat) THEN 0 ELSE mat[i][k] + column_sum(mat, k, i + 1)

\* The calibration matrix: every column divided by its sum (a column of
\* zeros stays zero).
normalize_columns(mat) ==
    [i \in 1..Len(mat) |->
        [k \in 1..Len(mat) |->
            IF column_sum(mat, k, 1) = 0 THEN <<0, 1>>
            ELSE FracReduce(mat[i][k], column_sum(mat, k, 1))]]

\* CompleteMeasFitter(results, state_labels, qubit_list)
CompleteMeasFitter(res, labels, ql) ==
    [state_labels |-> labels,
     qubit_list |-> ql,
     cal_matrix |-> normalize_columns(cal_counts_matrix(res, labels))]

\* meas_fitter = CompleteMeasFitter(cal_results, state_labels), after the job
\* without noise.
FitFirst ==
    /\ pc = "mc_fit_first"
    /\ meas_fitter' = CompleteMeasFitter(cal_results, state_labels,
                                         [k \in 1..Len(state_labels[1]) |-> k - 1])
    /\ pc' = "mc_noise_model"
    /\ UNCHANGED <<meas_calibs, state_labels, jobvars, cal_results, fidelity, results,
                   meas_fitter_sub, meas_filter_sub, mitigation>>
    /\ UNCHANGED t1vars
    /\ UNCHANGED rovars
    /\ UNCHANGED pulsevars

\* The cells that build the readout noise model and run the calibration
\* circuits again, with it.
CalExecuteNoisyStart ==
    /\ pc = "mc_noise_model"
    /\ noise_model' = "readout"
    /\ job_circ' = 1
    /\ job_shot' = 0
    /\ job_cur' = ZeroCounts(Len(qubit_list))
    /\ job_counts' = << >>
    /\ job_misreads' = 0
    /\ pc' = "mc_exec_second"
    /\ UNCHANGED <<meas_calibs, state_labels, cal_results, meas_fitter, fidelity, results,
                   meas_fitter_sub, meas_filter_sub, mitigation>>
    /\ UNCHANGED t1vars
    /\ UNCHANGED rovars
    /\ UNCHANGED pulsevars

\* meas_fitter = CompleteMeasFitter(cal_results, state_labels,
\* qubit_list=qubit_list), after the job with noise.
FitSecond ==
    /\ pc = "mc_fit_second"
    /\ meas_fitter' = CompleteMeasFitter(cal_results, state_labels, qubit_list)
    /\ pc' = "mc_fidelity"
    /\ UNCHANGED <<meas_calibs, state_labels, jobvars, cal_results, fidelity, results,
                   meas_fitter_sub, meas_filter_sub, mitigation>>
    /\ UNCHANGED t1vars
    /\ UNCHANGED rovars
    /\ UNCHANGED pulsevars

\* The diagonal of a calibration matrix.
diagonal(mat) == [i \in 1..Len(mat) |-> mat[i][i]]

\* Variant: the trace, not divided by the number of states.
readout_fidelity_trace(fitter) ==
    FracSum(diagonal(fitter.cal_matrix), [i \in 1..Len(fitter.cal_matrix) |-> i])

\* readout_fidelity(): the normalized trace of the calibration matrix, the
\* mean over the states of the probability of reading the state prepared.
readout_fidelity(fitter) ==
    FracDivInt(FracSum(diagonal(fitter.cal_matrix),
                       [i \in 1..Len(fitter.cal_matrix) |-> i]),
               Len(fitter.cal_matrix))

\* print("Average Measurement Fidelity: %f" % meas_fitter.readout_fidelity())
PrintFidelity ==
    /\ pc = "mc_fidelity"
    /\ fidelity' = readout_fidelity(meas_fitter)
    /\ pc' = "mc_bell"
    /\ UNCHANGED <<meas_calibs, state_labels, jobvars, cal_results, meas_fitter, results,
                   meas_fitter_sub, meas_filter_sub, mitigation>>
    /\ UNCHANGED t1vars
    /\ UNCHANGED rovars
    /\ UNCHANGED pulsevars

\* The Bell-state circuit between Q0 and Q2, on two classical bits.
bell == << <<"h", 0>>, <<"cx", 0, 2>>, <<"measure", 0, 0>>, <<"measure", 2, 1>> >>

\* The Bell-state job, with the readout noise model: BellShots shots, each
\* counted under a key of two bits.
BellExecute ==
    /\ pc = "mc_bell"
    /\ \E cnt \in [AllKeys(NumClbits(bell)) -> 0..BellShots] :
          /\ FracSum([k \in 1..(2 ^ NumClbits(bell)) |->
                         <<cnt[bin_label(k - 1, NumClbits(bell))], 1>>],
                     [k \in 1..(2 ^ NumClbits(bell)) |-> k])[1] = BellShots
          /\ results' = cnt
    /\ pc' = "mc_subset"
    /\ UNCHANGED <<meas_calibs, state_labels, jobvars, cal_results, meas_fitter, fidelity,
                   meas_fitter_sub, meas_filter_sub, mitigation>>
    /\ UNCHANGED t1vars
    /\ UNCHANGED rovars
    /\ UNCHANGED pulsevars

\* Variant: the subset is qubits 0 and 1.
qubit_sublist_01 == <<0, 1>>

\* qubit_sublist=[0,2]
qubit_sublist == <<0, 2>>

\* Positions (0-based) of the qubits of sub in ql.
qubit_sublist_ind(ql, sub) ==
    [s \in 1..Len(sub) |-> (CHOOSE qbind \in 1..Len(ql) : ql[qbind] = sub[s]) - 1]

\* A label of the full calibration, reduced to the characters at the
\* positions ind.
reduced_label(label, ind) == [s \in 1..Len(ind) |-> label[ind[s] + 1]]

\* The indices, in order, of the full labels that reduce to a given label.
RECURSIVE q_q_mapping(_, _, _, _)
q_q_mapping(labels, ind, sub_label, labelind) ==
    IF labelind > Len(labels) THEN << >>
    ELSE (IF reduced_label(labels[labelind], ind) = sub_label
          THEN <<labelind>> ELSE << >>)
             \o q_q_mapping(labels, ind, sub_label, labelind + 1)

\* The sum of mat[r][c] over the rows in rows and the columns in cols.
RECURSIVE block_sum(_, _, _)
block_sum(mat, rows, cols) ==
    IF rows = << >> THEN <<0, 1>>
    ELSE FracAdd(FracSum(mat[Head(rows)], cols), block_sum(mat, Tail(rows), cols))

\* subset_fitter(qubit_sublist): entry [i][k] of the reduced matrix sums the
\* full matrix over the states that reduce to i and to k, divided by the
\* number of states that reduce to i.
subset_fitter(fitter, sub) ==
    LET ind == qubit_sublist_ind(fitter.qubit_list, sub)
        new_state_labels == count_keys(Len(sub))
        map(s) == q_q_mapping(fitter.state_labels, ind, new_state_labels[s], 1)
    IN  [state_labels |-> new_state_labels,
         qubit_list |-> sub,
         cal_matrix |->
             [i \in 1..Len(new_state_labels) |->
                 [k \in 1..Len(new_state_labels) |->
                     FracDivInt(block_sum(fitter.cal_matrix, map(i), map(k)),
                                Len(map(i)))]]]

\* meas_fitter_sub = meas_fitter.subset_fitter(qubit_sublist=[0,2])
SubsetFitter ==
    /\ pc = "mc_subset"
    /\ meas_fitter_sub' = subset_fitter(meas_fitter, qubit_sublist)
    /\ pc' = "mc_apply"
    /\ UNCHANGED <<meas_calibs, state_labels, jobvars, cal_results, meas_fitter, fidelity,
                   results, meas_filter_sub, mitigation>>
    /\ UNCHANGED t1vars
    /\ UNCHANGED rovars
    /\ UNCHANGED pulsevars

\* fitter.filter: the filter holds the fitter's matrix and labels.
filter_of(fitter) == [state_labels |-> fitter.state_labels, cal_matrix |-> fitter.cal_matrix]

\* The fitter whose filter corrects the Bell-state counts.
sub_filter_source == meas_fitter_sub

\* The counts of a result as the vector the filter corrects: one entry per
\* state label of the filter, 0 for a label the result does not hold.
raw_data_vector(labels, counts) ==
    [s \in 1..Len(labels) |->
        IF labels[s] \in DOMAIN counts THEN counts[labels[s]] ELSE 0]

\* meas_filter_sub = meas_fitter_sub.filter and meas_filter_sub.apply(results):
\* the correction itself is left to the library; what it is given is kept.
ApplySubFilter ==
    /\ pc = "mc_apply"
    /\ meas_filter_sub' = filter_of(sub_filter_source)
    /\ mitigation' = [state_labels |-> filter_of(sub_filter_source).state_labels,
                      cal_matrix |-> filter_of(sub_filter_source).cal_matrix,
                      raw_data |-> raw_data_vector(filter_of(sub_filter_source).state_labels,
                                                   results),
                      method |-> "least_squares"]
    /\ pc' = "mc_done"
    /\ UNCHANGED <<meas_calibs, state_labels, jobvars, cal_results, meas_fitter, fidelity,
                   results, meas_fitter_sub>>
    /\ UNCHANGED t1vars
    /\ UNCHANGED rovars
    /\ UNCHANGED pulsevars

InitMeasCal ==
    /\ pc = "mc_generate"
    /\ T1Idle
    /\ ReadoutIdle
    /\ PulseIdle
    /\ CalIdle

NextMeasCal ==
    \/ MeasCalLabels
    \/ MeasCalCircuit
    \/ CalExecuteStart
    \/ CalShot
    \/ CalCircuitDone
    \/ CalJobResult
    \/ FitFirst
    \/ CalExecuteNoisyStart
    \/ FitSecond
    \/ PrintFidelity
    \/ BellExecute
    \/ SubsetFitter
    \/ ApplySubFilter

SpecMeasCal == InitMeasCal /\ [][NextMeasCal]_vars

(***************************************************************************)
(* Properties of the T1 experiment design                                  *)
(***************************************************************************)

\* Number of gates named op in circuit c.
CountOp(c, op) == Cardinality({k \in 1..Len(c) : c[k][1] = op})

\* C1: the delay times returned by t1_circuits are num_of_gates[i] * gate_time
\* for every i, one delay and one circuit per entry of num_of_gates, each
\* circuit holding that many identity gates; with gate_time = 0.1 the first
\* circuit has 10 identity gates and a delay of exactly 1 micro-second.
C1_DelayIsGatesTimesGateTime ==
    pc = "t1_done" =>
        /\ Len(t1_xdata) = Len(num_of_gates)
        /\ Len(t1_circs) = Len(num_of_gates)
        /\ \A i \in 1..Len(num_of_gates) :
              /\ t1_xdata[i] = num_of_gates[i] * gate_time
              /\ CountOp(t1_circs[i], "id") * gate_time = t1_xdata[i]
        /\ CountOp(t1_circs[1], "id") = 10
        /\ t1_xdata[1] = TimeUnitsPerMicro

C1_Witness ==
    /\ pc = "t1_done"
    /\ Len(t1_xdata) = 50
    /\ t1_xdata[1] = TimeUnitsPerMicro
    /\ t1_xdata[50] = 30 * TimeUnitsPerMicro

\* C10: the minimum number of identity gates is 10 and the maximum 300:
\* num_of_gates[0] = 10, num_of_gates[-1] = 300, every entry lies in 10..300,
\* and the first circuit contains exactly 10 identity gates.
C10_GatesBetween10And300 ==
    /\ pc \in {"t1_call", "t1_loop", "t1_done"} =>
          /\ num_of_gates[1] = 10
          /\ num_of_gates[Len(num_of_gates)] = 300
          /\ \A i \in 1..Len(num_of_gates) :
                num_of_gates[i] >= 10 /\ num_of_gates[i] <= 300
    /\ pc = "t1_done" => CountOp(t1_circs[1], "id") = 10

C10_Witness ==
    /\ pc = "t1_done"
    /\ Len(num_of_gates) = 50
    /\ CountOp(t1_circs[1], "id") = 10
    /\ CountOp(t1_circs[50], "id") = 300

\* C11: the number of identity gates is stepped in units of 50: consecutive
\* entries of num_of_gates differ by exactly 50 gates.
C11_StepIsFifty ==
    pc \in {"t1_call", "t1_loop", "t1_done"} =>
        \A i \in 1..(Len(num_of_gates) - 1) :
            num_of_gates[i + 1] - num_of_gates[i] = 50

\* The T1 cell has run and its first two entries are 10 and 15: the 50 of
\* np.linspace(10, 300, 50) is the number of points, so the step is 290/49.
C11_Witness ==
    /\ pc = "t1_call"
    /\ Len(num_of_gates) = 50
    /\ num_of_gates[1] = 10
    /\ num_of_gates[2] = 15
    /\ \A i \in 1..49 : num_of_gates[i + 1] - num_of_gates[i] \in {5, 6}

(***************************************************************************)
(* Properties of the readout error loop                                    *)
(***************************************************************************)

Min2(x, y) == IF x <= y THEN x ELSE y

Max2(x, y) == IF x <= y THEN y ELSE x

\* C7: for each qubit j = 0..4 the printed readout error is one half of the
\* sum of the two printed probabilities, each the device value rounded to 5
\* decimals, and so lies between the smaller and the larger of the two.
C7_ReadoutErrorIsHalfSum ==
    (pc \in {"ro_loop", "ro_done"} /\ j >= 0) =>
        /\ out.qubit = j
        /\ out.qubit \in 0..4
        /\ 10 * out.read0_given1 - out.raw01 \in -5..5
        /\ 10 * out.read1_given0 - out.raw10 \in -5..5
        /\ FracEq(out.readout_error, Frac(out.read0_given1 + out.read1_given0, 2))
        /\ FracLeq(Frac(Min2(out.read0_given1, out.read1_given0), 1), out.readout_error)
        /\ FracLeq(out.readout_error, Frac(Max2(out.read0_given1, out.read1_given0), 1))
        /\ a = out.read0_given1 /\ b = out.read1_given0 /\ error = out.readout_error

C7_Witness ==
    /\ pc = "ro_done"
    /\ out.qubit = 4
    /\ out.read0_given1 = 2
    /\ out.read1_given0 = 0
    /\ out.raw01 = 15
    /\ out.raw10 = 5
    /\ FracEq(out.readout_error, Frac(1, 1))

(***************************************************************************)
(* Properties of the amplitude sweep                                       *)
(***************************************************************************)

\* Whether a schedule excites qubit 0 before measuring.
IsExcitedExp(sched) == \E k \in 1..Len(sched) : sched[k][1] = "play_x180"

\* Whether every measurement pulse of a schedule has amplitude amp, and there
\* is one.
HasMeasAmp(sched, amp) ==
    /\ \E k \in 1..Len(sched) : sched[k][1] = "play_meas"
    /\ \A k \in 1..Len(sched) : sched[k][1] = "play_meas" => FracEq(sched[k][3], amp)

C6_OptimalAmpMaximisesSeparation ==
    pc \in {"fetch", "pulse_done"} =>
        /\ optimal_idx \in 0..(n_exps - 1)
        /\ Len(centroid_distances) = n_exps
        /\ \A k \in 0..(n_exps - 1) :
              centroid_distances[optimal_idx + 1] >= centroid_distances[k + 1]
        /\ \A k \in 0..(n_exps - 1) :
              k < optimal_idx =>
                  centroid_distances[k + 1] < centroid_distances[optimal_idx + 1]
        /\ optimal_amp = amps[optimal_idx + 1]
        /\ FracEq(optimal_amp, Frac(optimal_idx * max_amp[1], (n_exps - 1) * max_amp[2]))

C6_Witness ==
    /\ pc = "fetch"
    /\ optimal_idx = 3
    /\ centroid_distances[4] = centroid_distances[7]
    /\ centroid_distances[4] > centroid_distances[1]
    /\ FracEq(optimal_amp, Frac(5, 100))

(***************************************************************************)
(* Properties of the measurement calibration                               *)
(***************************************************************************)

\* The qubits a circuit measures.
MeasuredQubits(gates) == {gates[k][2] : k \in {m \in 1..Len(gates) : gates[m][1] = "measure"}}

\* Whether every X gate of a circuit comes before every measurement.
PreparesThenMeasures(gates) ==
    \A k, m \in 1..Len(gates) :
        (gates[k][1] = "x" /\ gates[m][1] = "measure") => k < m

\* C2: complete_meas_cal for the qubits [0,1,2] returns 2^3 = 8 circuits and
\* 8 state labels; the circuits prepare pairwise distinct basis states and
\* then measure all three qubits; the first prepares |000>, the last |111>.
C2_EightDistinctBasisCircuits ==
    pc \notin {"mc_generate", "mc_circuits"} =>
        /\ Len(meas_calibs) = 8
        /\ Len(state_labels) = 8
        /\ \A i, k \in 1..Len(meas_calibs) :
              i # k => PreparedOnes(meas_calibs[i].gates) # PreparedOnes(meas_calibs[k].gates)
        /\ \A i \in 1..Len(meas_calibs) :
              /\ MeasuredQubits(meas_calibs[i].gates) = {0, 1, 2}
              /\ NumClbits(meas_calibs[i].gates) = 3
              /\ PreparesThenMeasures(meas_calibs[i].gates)
              /\ PreparedOnes(meas_calibs[i].gates) \subseteq {0, 1, 2}
        /\ PreparedOnes(meas_calibs[1].gates) = {}
        /\ PreparedOnes(meas_calibs[Len(meas_calibs)].gates) = {0, 1, 2}

C2_Witness ==
    /\ pc = "mc_exec_first"
    /\ Len(meas_calibs) = 8
    /\ state_labels[8] = <<"1", "1", "1">>
    /\ PreparedOnes(meas_calibs[8].gates) = {0, 1, 2}

\* Whether mat is the n x n identity matrix.
IsIdentity(mat, n) ==
    /\ Len(mat) = n
    /\ \A i \in 1..n :
          /\ Len(mat[i]) = n
          /\ \A k \in 1..n : FracEq(mat[i][k], IF i = k THEN <<1, 1>> ELSE <<0, 1>>)

\* C3: when the 8 calibration circuits are run with no noise model, every
\* shot of the circuit preparing state k reads k and none reads another
\* state, and the calibration matrix of CompleteMeasFitter is the 8 x 8
\* identity.
C3_NoNoiseGivesIdentity ==
    /\ pc = "mc_noise_model" =>
          \A e \in 1..Len(cal_results) :
              \A key \in DOMAIN cal_results[e].counts :
                  cal_results[e].counts[key] =
                      IF key = ideal_key(meas_calibs[e].gates,
                                         PreparedOnes(meas_calibs[e].gates))
                      THEN CalShots ELSE 0
    /\ pc \in {"mc_noise_model", "mc_exec_second", "mc_fit_second"} =>
          IsIdentity(meas_fitter.cal_matrix, 8)

C3_Witness ==
    /\ pc = "mc_noise_model"
    /\ Len(cal_results) = 8
    /\ cal_results[8].counts[<<"1", "1", "1">>] = CalShots
    /\ IsIdentity(meas_fitter.cal_matrix, 8)

\* The trace of the calibration matrix of the fitter in use.
CalTrace ==
    FracSum(diagonal(meas_fitter.cal_matrix), [i \in 1..Len(meas_fitter.cal_matrix) |-> i])

\* The shots of the calibration job that read the state prepared.
RECURSIVE CorrectShots(_)
CorrectShots(e) ==
    IF e > Len(cal_results) THEN 0
    ELSE cal_results[e].counts[ideal_key(meas_calibs[e].gates,
                                         PreparedOnes(meas_calibs[e].gates))]
             + CorrectShots(e + 1)

Embed02(s) == 4 * (s \div 2) + (s % 2)

\* Pr(read s | prepared t) on qubits 0 and 2, from the three-qubit matrix:
\* summed over what qubit 1 reads, averaged over what qubit 1 was prepared in.
Marginal02(mat, s, t) ==
    FracDivInt(
        FracAdd(FracAdd(mat[Embed02(s) + 1][Embed02(t) + 1],
                        mat[Embed02(s) + 3][Embed02(t) + 1]),
                FracAdd(mat[Embed02(s) + 1][Embed02(t) + 3],
                        mat[Embed02(s) + 3][Embed02(t) + 3])),
        2)

\* The sum of a sequence of integers.
RECURSIVE SeqSum(_)
SeqSum(v) == IF v = << >> THEN 0 ELSE Head(v) + SeqSum(Tail(v))

\* C9: subset_fitter(qubit_sublist=[0,2]) reduces the 8 x 8 calibration
\* matrix to a 4 x 4 matrix on qubits 0 and 2 whose entry (read ab | prepared
\* cd) is the three-qubit matrix marginalised over qubit 1, and that matrix
\* is the one used to correct the two-bit Bell-state counts.
C9_SubsetIsMarginalOverQubit1 ==
    /\ pc \in {"mc_apply", "mc_done"} =>
          /\ Len(meas_fitter.cal_matrix) = 8
          /\ Len(meas_fitter_sub.cal_matrix) = 4
          /\ meas_fitter_sub.qubit_list = <<0, 2>>
          /\ \A s, t \in 0..3 :
                /\ Len(meas_fitter_sub.cal_matrix[s + 1]) = 4
                /\ FracEq(meas_fitter_sub.cal_matrix[s + 1][t + 1],
                          Marginal02(meas_fitter.cal_matrix, s, t))
    /\ pc = "mc_done" =>
          /\ meas_filter_sub.cal_matrix = meas_fitter_sub.cal_matrix
          /\ mitigation.cal_matrix = meas_fitter_sub.cal_matrix
          /\ Len(mitigation.raw_data) = 4
          /\ SeqSum(mitigation.raw_data) = BellShots

C9_Witness ==
    /\ pc = "mc_done"
    /\ ~FracEq(meas_fitter.cal_matrix[1][1], <<1, 1>>)
    /\ FracEq(meas_fitter.cal_matrix[3][1], <<1, CalShots>>)
    /\ FracEq(meas_fitter_sub.cal_matrix[1][1], <<1, 1>>)
    /\ SeqSum(mitigation.raw_data) = BellShots

====
